---- MODULE Spec2Model ----
(***************************************************************************)
(* Model of repo_miner.py: the fetch-commits and fetch-issues sub-commands *)
(* of the CLI (main), the two fetch functions and the CSV/summary output.  *)
(* One behaviour of the model is one run of the CLI.                       *)
(***************************************************************************)
EXTENDS Integers, Sequences, FiniteSets, TLC

\* ---- bounds of the model ----
MaxLen == 2        \* longest upstream collection
MaxLimit == 2      \* largest value of --max
PageSize == 1      \* entries per upstream page

\* ---- units ----
HoursPerDay == 24  \* timestamps are counted in hours

\* ---- optional values (Python None / a value) ----
None == <<>>
Some(x) == <<x>>

\* Python truthiness of an optional int and of an optional string
TruthyInt(v) == v # None /\ v[1] # 0
TruthyStr(v) == v # None /\ v[1] # ""

Range(s) == {s[i] : i \in 1..Len(s)}

VARIABLES command, token, max, state, upstream,
          pc, gh, calls, idx, records, df, outFile, summary, err

vars == <<command, token, max, state, upstream,
          pc, gh, calls, idx, records, df, outFile, summary, err>>

\* ---- upstream data ----
Tokens == {None, Some(""), Some("tok")}
Limits == {None} \cup {Some(n) : n \in 0..MaxLimit}
States == {"all", "open", "closed"}

Messages == { <<"a">>, <<"a", "\n", "b">>, <<"\n", "b">> }

GitAuthors ==
  {None} \cup
  {Some([name |-> n, email |-> e, date |-> d]) :
     <<n, e, d>> \in { <<Some("ann"), Some("a@x"), Some(25)>>,
                       <<None,        Some("a@x"), Some(25)>>,
                       <<Some("ann"), None,        Some(25)>>,
                       <<Some("ann"), Some("a@x"), None>> }}

CommitShapes == [author : GitAuthors, message : Messages]

IssueShapes ==
  [pull_request : {None}, user : {None, Some("bob")},
   created_at : {None, Some(0)}, closed_at : {None, Some(96), Some(119)}]
  \cup
  [pull_request : {Some("pr")}, user : {Some("bob")},
   created_at : {Some(0)}, closed_at : {None, Some(96)}]

ShapeSeqs(S) == UNION {[1..n -> S] : n \in 0..MaxLen}

\* the i-th upstream commit: its sha is its position
Commit(i, s) == [sha |-> i, author |-> s.author, message |-> s.message]

\* the i-th upstream issue: id and number are its position, the state
\* follows closed_at as it does upstream
Issue(i, s) ==
  [id |-> i, number |-> i, title |-> "t", user |-> s.user,
   state |-> IF s.closed_at = None THEN "open" ELSE "closed",
   created_at |-> s.created_at, closed_at |-> s.closed_at,
   comments |-> 0, pull_request |-> s.pull_request]

\* ---- pure helpers ----
\* datetime.isoformat(): hours since the epoch rendered as date and time
Isoformat(t) == [day |-> t \div HoursPerDay, hour |-> t % HoursPerDay]

\* (a - b).days : timedelta keeps 0 <= seconds < 86400, days is the floor
TimedeltaDays_roundup(a, b) == ((a - b) + (HoursPerDay - 1)) \div HoursPerDay
TimedeltaDays(a, b) == (a - b) \div HoursPerDay

\* message.split("\n")[0]
RECURSIVE FirstLine(_)
FirstLine(m) ==
  IF m = <<>> \/ Head(m) = "\n" THEN <<>>
  ELSE <<Head(m)>> \o FirstLine(Tail(m))

\* repo.get_issues(state=state): the upstream filter
StateMatches(i) == state = "all" \/ i.state = state
GetIssues == SelectSeq(upstream, StateMatches)

\* the collection the loop enumerates
Collection == IF command = "fetch-commits" THEN upstream ELSE GetIssues

\* enumerate() asks for entry i; a page request is needed at page borders
NeedPage(i) == i % PageSize = 0 /\ (i = 0 \/ i < Len(Collection))
PageCall(i) == [req |-> "page", page |-> i \div PageSize]
CallsAfterNext(i) == IF NeedPage(i) THEN Append(calls, PageCall(i)) ELSE calls

\* ---- fetch_commits ----
TokenMissing_onlyUnset == token = None
TokenMissing == ~TruthyStr(token)

CommitLimitReached(i) == max # None /\ i >= max[1]

\* commit_data.author.date.isoformat() on an author without a date
CommitRaises(c) == c.author # None /\ c.author[1].date = None

NormalizeCommit(c) ==
  [sha |-> c.sha,
   author |-> IF c.author # None THEN c.author[1].name ELSE None,
   email |-> IF c.author # None THEN c.author[1].email ELSE None,
   date |-> IF c.author # None THEN Some(Isoformat(c.author[1].date[1])) ELSE None,
   message |-> FirstLine(c.message)]

CommitColumns == <<"sha", "author", "email", "date", "message">>

\* ---- fetch_issues ----
IssuesClient_anon == [auth |-> None]
IssuesClient == IF TruthyStr(token) THEN [auth |-> token] ELSE [auth |-> None]

IssueLimitReached_accepted(i) == TruthyInt(max) /\ Len(records) >= max[1]
IssueLimitReached(i) == TruthyInt(max) /\ i >= max[1]

IsPullRequest_never(i) == FALSE
IsPullRequest(i) == i.pull_request # None

NormalizeIssue(i) ==
  [id |-> i.id, number |-> i.number, title |-> i.title,
   user |-> i.user, state |-> i.state,
   created_at |-> IF i.created_at # None THEN Some(Isoformat(i.created_at[1])) ELSE None,
   closed_at |-> IF i.closed_at # None THEN Some(Isoformat(i.closed_at[1])) ELSE None,
   comments |-> i.comments,
   open_duration_days |->
     IF i.created_at # None /\ i.closed_at # None
     THEN Some(TimedeltaDays(i.closed_at[1], i.created_at[1])) ELSE None]

\* keys of the record dict, in insertion order
IssueKeys == <<"id", "number", "title", "user", "state", "created_at",
               "closed_at", "comments", "open_duration_days">>

\* pd.DataFrame(records): the columns are inferred from the rows
InferredFrame(rs) ==
  [columns |-> IF rs = <<>> THEN <<>> ELSE IssueKeys, rows |-> rs]

\* ---- exceptions: nothing in main catches them ----
Raise_swallowed(e) == pc' = "build" /\ err' = e
Raise(e) == pc' = "failed" /\ err' = e

\* ---- initial state: the CLI arguments, the environment, the upstream ----
Init ==
  /\ command \in {"fetch-commits", "fetch-issues"}
  /\ token \in Tokens
  /\ max \in Limits
  /\ state \in (IF command = "fetch-issues" THEN States ELSE {"all"})
  /\ \E ss \in ShapeSeqs(IF command = "fetch-commits" THEN CommitShapes ELSE IssueShapes) :
       upstream = [i \in 1..Len(ss) |->
                     IF command = "fetch-commits" THEN Commit(i, ss[i]) ELSE Issue(i, ss[i])]
  /\ pc = "start"
  /\ gh = None
  /\ calls = <<>>
  /\ idx = 0
  /\ records = <<>>
  /\ df = None
  /\ outFile = None
  /\ summary = None
  /\ err = "none"

\* ---- actions ----
\* fetch_commits: read the token, fail or create the client
CommitsNoToken ==
  /\ pc = "start" /\ command = "fetch-commits"
  /\ TokenMissing
  /\ Raise("RuntimeError")
  /\ UNCHANGED <<command, token, max, state, upstream, gh, calls, idx,
                 records, df, outFile, summary>>

CommitsClient ==
  /\ pc = "start" /\ command = "fetch-commits"
  /\ ~TokenMissing
  /\ gh' = Some([auth |-> token])
  /\ pc' = "get_repo"
  /\ UNCHANGED <<command, token, max, state, upstream, calls, idx,
                 records, df, outFile, summary, err>>

\* fetch_issues: the client is created with or without the token
IssuesClientStep ==
  /\ pc = "start" /\ command = "fetch-issues"
  /\ gh' = Some(IssuesClient)
  /\ pc' = "get_repo"
  /\ UNCHANGED <<command, token, max, state, upstream, calls, idx,
                 records, df, outFile, summary, err>>

\* gh.get_repo(repo_name) answers
GetRepo ==
  /\ pc = "get_repo"
  /\ calls' = Append(calls, [req |-> "get_repo", page |-> 0])
  /\ pc' = "loop"
  /\ UNCHANGED <<command, token, max, state, upstream, gh, idx,
                 records, df, outFile, summary, err>>

\* gh.get_repo(repo_name) raises
GetRepoFails ==
  /\ pc = "get_repo"
  /\ calls' = Append(calls, [req |-> "get_repo", page |-> 0])
  /\ Raise("GithubException")
  /\ UNCHANGED <<command, token, max, state, upstream, gh, idx,
                 records, df, outFile, summary>>

\* the request for the next page raises
PageFails ==
  /\ pc = "loop"
  /\ NeedPage(idx)
  /\ calls' = Append(calls, PageCall(idx))
  /\ Raise("GithubException")
  /\ UNCHANGED <<command, token, max, state, upstream, gh, idx,
                 records, df, outFile, summary>>

\* one turn of the loop of fetch_commits
CommitsLoop ==
  /\ pc = "loop" /\ command = "fetch-commits"
  /\ calls' = CallsAfterNext(idx)
  /\ IF idx >= Len(Collection) \/ CommitLimitReached(idx)
     THEN /\ pc' = "build"
          /\ UNCHANGED <<idx, records, err>>
     ELSE IF CommitRaises(Collection[idx + 1])
     THEN /\ Raise("AttributeError")
          /\ UNCHANGED <<idx, records>>
     ELSE /\ records' = Append(records, NormalizeCommit(Collection[idx + 1]))
          /\ idx' = idx + 1
          /\ UNCHANGED <<pc, err>>
  /\ UNCHANGED <<command, token, max, state, upstream, gh, df, outFile, summary>>

\* one turn of the loop of fetch_issues
IssuesLoop ==
  /\ pc = "loop" /\ command = "fetch-issues"
  /\ calls' = CallsAfterNext(idx)
  /\ IF idx >= Len(Collection) \/ IssueLimitReached(idx)
     THEN /\ pc' = "build"
          /\ UNCHANGED <<idx, records>>
     ELSE IF IsPullRequest(Collection[idx + 1])
     THEN /\ idx' = idx + 1
          /\ UNCHANGED <<pc, records>>
     ELSE /\ records' = Append(records, NormalizeIssue(Collection[idx + 1]))
          /\ idx' = idx + 1
          /\ UNCHANGED pc
  /\ UNCHANGED <<command, token, max, state, upstream, gh, df, outFile, summary, err>>

\* pd.DataFrame(records, columns=[...])
CommitsFrame ==
  /\ pc = "build" /\ command = "fetch-commits"
  /\ df' = Some([columns |-> CommitColumns, rows |-> records])
  /\ pc' = "to_csv"
  /\ UNCHANGED <<command, token, max, state, upstream, gh, calls, idx,
                 records, outFile, summary, err>>

\* pd.DataFrame(records)
IssuesFrame ==
  /\ pc = "build" /\ command = "fetch-issues"
  /\ df' = Some(InferredFrame(records))
  /\ pc' = "to_csv"
  /\ UNCHANGED <<command, token, max, state, upstream, gh, calls, idx,
                 records, outFile, summary, err>>

\* df.to_csv(args.out, index=False)
ToCsv ==
  /\ pc = "to_csv"
  /\ outFile' = Some([header |-> df[1].columns, rows |-> df[1].rows])
  /\ pc' = "print"
  /\ UNCHANGED <<command, token, max, state, upstream, gh, calls, idx,
                 records, df, summary, err>>

\* print(f"Saved {len(df)} ... to {args.out}")
PrintSummary ==
  /\ pc = "print"
  /\ summary' = Some(Len(df[1].rows))
  /\ pc' = "exit"
  /\ UNCHANGED <<command, token, max, state, upstream, gh, calls, idx,
                 records, df, outFile, err>>

Next ==
  \/ CommitsNoToken
  \/ CommitsClient
  \/ IssuesClientStep
  \/ GetRepo
  \/ GetRepoFails
  \/ PageFails
  \/ CommitsLoop
  \/ IssuesLoop
  \/ CommitsFrame
  \/ IssuesFrame
  \/ ToCsv
  \/ PrintSummary

Spec == Init /\ [][Next]_vars

\* ---- vocabulary of the properties ----
Min(a, b) == IF a <= b THEN a ELSE b

NoCredential == token \in {None, Some("")}
FetchReturned == pc \in {"to_csv", "print", "exit"}
RunEnded == pc \in {"exit", "failed"}

DeclaredCommitColumns == <<"sha", "author", "email", "date", "message">>
DeclaredIssueColumns == <<"id", "number", "title", "user", "state", "created_at",
                          "closed_at", "comments", "open_duration_days">>

\* the row a commit is to give, every missing field absent
ExpectedCommitRow(c) ==
  [sha |-> c.sha,
   author |-> IF c.author = None THEN None ELSE c.author[1].name,
   email |-> IF c.author = None THEN None ELSE c.author[1].email,
   date |-> IF c.author = None \/ c.author[1].date = None THEN None
            ELSE Some(Isoformat(c.author[1].date[1])),
   message |-> FirstLine(c.message)]

Ids(rows) == [i \in 1..Len(rows) |-> rows[i].id]
NotPullRequest(i) == i.pull_request = None
NonPullRequestIds(entries) == Ids(SelectSeq(entries, NotPullRequest))

\* C1: with a credential set and no upstream error, fetch_commits emits
\* exactly the normalizations of the first min(N, T) upstream commits (all T
\* when the limit is absent), in upstream order.
C1_CommitRowsAreFirstMin ==
  (command = "fetch-commits" /\ ~NoCredential /\ RunEnded /\ err # "GithubException")
  => /\ df # None
     /\ LET n == IF max = None THEN Len(upstream) ELSE Min(max[1], Len(upstream))
        IN df[1].rows = [i \in 1..n |-> ExpectedCommitRow(upstream[i])]

\* C2: fetch_commits without a credential (unset or empty) fails with the
\* configuration error before the client is created and before any network
\* call: no request is ever issued in that run.
C2_NoCredentialNoNetwork ==
  (command = "fetch-commits" /\ NoCredential)
  => /\ calls = <<>>
     /\ gh = None
     /\ pc \in {"start", "failed"}
     /\ (pc = "failed" => err = "RuntimeError")

C2_Witness ==
  command = "fetch-commits" /\ token = Some("") /\ upstream # <<>>
  /\ pc = "failed" /\ err = "RuntimeError"

\* C3: fetch_issues never emits a row of an upstream entry flagged as a pull
\* request, whatever the state filter and the limit.
C3_NoPullRequestRow ==
  command = "fetch-issues"
  => /\ \A r \in Range(records) : upstream[r.id].pull_request = None
     /\ (outFile # None =>
           \A r \in Range(outFile[1].rows) : upstream[r.id].pull_request = None)

C3_Witness ==
  /\ command = "fetch-issues" /\ pc = "exit"
  /\ records # <<>>
  /\ \E i \in 1..idx : Collection[i].pull_request # None

\* C4: for a limit N >= 1 the cutoff is on the raw enumeration index: the
\* rows are the non-pull-request entries among the first min(N, T) upstream
\* entries, in order; at most N rows, fewer than N when one of those entries
\* is a pull request.
C4_LimitCountsRawEntries ==
  (command = "fetch-issues" /\ max # None /\ max[1] >= 1 /\ FetchReturned)
  => LET n == Min(max[1], Len(Collection))
         first == SubSeq(Collection, 1, n)
     IN /\ Ids(df[1].rows) = NonPullRequestIds(first)
        /\ Len(df[1].rows) <= max[1]
        /\ ((\E i \in 1..n : first[i].pull_request # None)
              => Len(df[1].rows) < max[1])

C4_Witness ==
  /\ command = "fetch-issues" /\ pc = "exit" /\ max = Some(1)
  /\ Len(Collection) = 2
  /\ Collection[1].pull_request # None
  /\ Collection[2].pull_request = None
  /\ df[1].rows = <<>>

\* C5: a limit of 0 is a bound: both fetch_commits and fetch_issues emit
\* zero rows when called with limit 0.
C5_LimitZeroEmitsNothing ==
  (max = Some(0) /\ FetchReturned) => df[1].rows = <<>>

\* C6: open_duration_days of an emitted issue row is the floor of
\* (closed_at - created_at) in whole days when both timestamps are present,
\* and absent when either is missing.
C6_OpenDurationIsFloor ==
  command = "fetch-issues"
  => \A r \in Range(records) :
       LET e == upstream[r.id] IN
       IF e.created_at # None /\ e.closed_at # None
       THEN /\ r.open_duration_days # None
            /\ LET k == r.open_duration_days[1]
                   d == e.closed_at[1] - e.created_at[1]
               IN k * HoursPerDay <= d /\ d < (k + 1) * HoursPerDay
       ELSE r.open_duration_days = None

C6_Witness ==
  /\ command = "fetch-issues" /\ pc = "exit"
  /\ \E r \in Range(records) :
       /\ upstream[r.id].created_at = Some(0)
       /\ upstream[r.id].closed_at = Some(119)
       /\ r.open_duration_days = Some(4)
  /\ \E r \in Range(records) :
       upstream[r.id].closed_at = None /\ r.open_duration_days = None

\* C7: the CSV written by a successful fetch carries the declared header,
\* and every row exactly the declared columns, also when zero rows are
\* emitted.
C7_DeclaredHeaderAlways ==
  outFile # None
  => LET cols == IF command = "fetch-commits" THEN DeclaredCommitColumns
                 ELSE DeclaredIssueColumns
     IN /\ outFile[1].header = cols
        /\ \A r \in Range(outFile[1].rows) : DOMAIN r = Range(cols)

\* C8: a record with missing fields is never fatal and never skipped: the
\* only errors that end a run are the configuration error and upstream
\* errors, and every row carries each missing field of its record as absent.
C8_MissingFieldsNeverFatal ==
  /\ pc = "failed" => err \in {"RuntimeError", "GithubException"}
  /\ command = "fetch-commits" =>
       \A r \in Range(records) : r = ExpectedCommitRow(upstream[r.sha])
  /\ command = "fetch-issues" =>
       \A r \in Range(records) :
         /\ r.user = upstream[r.id].user
         /\ (r.created_at = None) = (upstream[r.id].created_at = None)
         /\ (r.closed_at = None) = (upstream[r.id].closed_at = None)

\* C9: fetch_issues never fails for a missing credential: without a token the
\* client is unauthenticated, with a token the client carries exactly that
\* token, and the emitted rows are those of the enumerated non-pull-request
\* entries either way.
C9_IssuesCredentialOptional ==
  command = "fetch-issues"
  => /\ err # "RuntimeError"
     /\ (pc # "start" =>
           /\ gh # None
           /\ gh[1].auth = IF NoCredential THEN None ELSE token)
     /\ (FetchReturned =>
           Ids(df[1].rows) = NonPullRequestIds(SubSeq(Collection, 1, idx)))

C9_Witness ==
  /\ command = "fetch-issues" /\ token = None /\ pc = "exit"
  /\ gh = Some([auth |-> None])
  /\ outFile # None /\ outFile[1].rows # <<>>

\* C10: the file is written only after the fetch has returned without error,
\* the summary is printed only after the file is written, and a failed run
\* writes no file, prints no summary and issues no further request (no
\* request is ever issued twice).
C10_WriteAfterFetchNoRetry ==
  /\ [](outFile # None => (pc \in {"print", "exit"} /\ err = "none" /\ df # None))
  /\ [](summary # None => (outFile # None /\ pc = "exit"))
  /\ [](err # "none" => (pc = "failed" /\ outFile = None /\ summary = None))
  /\ [](\A i, j \in 1..Len(calls) : calls[i] = calls[j] => i = j)
  /\ [][pc = "failed" => calls' = calls]_vars

C10_Witness ==
  /\ pc = "failed" /\ err = "GithubException"
  /\ records # <<>> /\ Len(calls) >= 3
  /\ outFile = None /\ summary = None

====
